---- MODULE Spec2Model ----
(***************************************************************************)
(* Railway-oriented programming primitives of minikN/rop:                  *)
(*   - the composition engine  pipe / mappedPipe / resolveAsync            *)
(*     (src/util/pipe.ts), and                                             *)
(*   - the Result algebra and its adapters  match, flatMap, bind, tap,     *)
(*     guard  (src/index.ts, later generation, lines 247-598).             *)
(*                                                                         *)
(* JavaScript values are records tagged by the field t.  A thenable is     *)
(* described by what it will settle to; WHEN it settles is the Settle      *)
(* action.  Every call of a user function is appended to the invocation's  *)
(* call log, so that "f is (not) invoked" is a statement about the state.  *)
(***************************************************************************)
EXTENDS Integers, Sequences, FiniteSets, TLC

VARIABLES
    engine,     \* per invocation: "pipe" or "mappedPipe"
    mapFn,      \* per invocation: the wrapper given to mappedPipe ("none" for pipe)
    funs,       \* per invocation: the chain f1..fn given at construction
    args,       \* per invocation: the caller's argument
    pc,         \* per invocation: "ready" | "await" | "done"
    result,     \* per invocation: resolveAsync's `result` (the current value slot)
    rest,       \* per invocation: resolveAsync's `funs` still to apply
    settled,    \* per invocation: whether the thenable being awaited has settled
    ret,        \* per invocation: what the caller got back from the composed call
    log         \* per invocation: the calls of user functions made so far

vars == <<engine, mapFn, funs, args, pc, result, rest, settled, ret, log>>

----------------------------------------------------------------------------
(* Bounds *)

MaxChain == 3         \* longest chain of raw steps
MaxRail == 3          \* longest chain of adapter-wrapped stages
MaxGuardPrefix == 1   \* most stages before a guard stage
MaxGuardSuffix == 1   \* most stages after a guard stage
MaxMapped == 3        \* longest chain given to mappedPipe

----------------------------------------------------------------------------
(* JavaScript values *)

Undefined == [t |-> "undefined"]
Null == [t |-> "null"]

NoCode == "<none>"

\* An Error object: its class name and its `code` property (NoCode: no such property).
Fault(name, code) == [t |-> "fault", name |-> name, code |-> code]

\* A TypeError raised by the runtime (property access on null / undefined).
TypeError == Fault("TypeError", NoCode)

\* The demo domain's User.
User(name, email, age) == [t |-> "user", name |-> name, email |-> email, age |-> age]

john == User("john", "john@doe.com", 18)

\* The result of an arbitrary (uninterpreted) step function n applied to v.
App(n, v) == [t |-> "app", f |-> n, arg |-> v]

\* A function object (only its identity matters).
FunctionValue(name) == [t |-> "function", name |-> name]

\* A value exposing `then`.  typeof is "object" (a Promise, or any object with a
\* then method) or "function" (a callable with a then method); settle / v say
\* what it settles to.
Thenable(typeof, settle, v) ==
    [t |-> "thenable", typeof |-> typeof, settle |-> settle, v |-> v]

Promise(settle, v) == Thenable("object", settle, v)

Failure(e) == [t |-> "result", tag |-> "error", error |-> e]
Success(v) == [t |-> "result", tag |-> "value", value |-> v]

\* typeof value
TypeOf(v) ==
    CASE v.t = "undefined" -> "undefined"
      [] v.t = "function" -> "function"
      [] v.t = "thenable" -> v.typeof
      [] OTHER -> "object"

\* typeof value.then === "function"
HasThen(v) == v.t = "thenable"

Truthy(v) == v.t \notin {"undefined", "null"}

\* The `errors` object given to guard: its own properties, code -> typed error.
ErrorMap(own) == [t |-> "map", own |-> own]

\* Properties every object literal inherits from Object.prototype.
ObjectPrototypeKeys == {"constructor", "toString"}

\* obj[key] on an `errors` object: an own property, else an inherited one,
\* else undefined.
GetProp(obj, key) ==
    IF key \in DOMAIN obj.own THEN obj.own[key]
    ELSE IF key \in ObjectPrototypeKeys THEN FunctionValue(key)
    ELSE Undefined

\* e.code as a property key (an absent code is the key "undefined").
CodeKey(e) == IF e.t = "fault" /\ e.code # NoCode THEN e.code ELSE "undefined"

----------------------------------------------------------------------------
(* Outcomes of a call: a returned value or a thrown one, with the calls made *)

Ret(v, calls) == [k |-> "ret", v |-> v, calls |-> calls]
Throw(e, calls) == [k |-> "throw", v |-> e, calls |-> calls]

\* One call, as the call log keeps it: the function, its argument, how the call
\* ended, and how deep inside the chain's step it was made (0: the step itself).
CallEntry(depth, fn, arg, o) ==
    [depth |-> depth, fn |-> fn, arg |-> arg, out |-> [k |-> o.k, v |-> o.v]]

----------------------------------------------------------------------------
(* Step functions *)

\* An arbitrary unary step function named n.  mode says what a call does:
\*   "return"    returns App(n, v)
\*   "thenable"  returns a thenable (typeof: "object" / "function") resolving to App(n, v)
\*   "throw"     throws q
\*   "reject"    returns a thenable that rejects with q
\*   "demo"      one of the demo domain's functions (q: what the I/O it does yields)
Lambda(n, mode, typeof, q) ==
    [k |-> "user", n |-> n, mode |-> mode, typeof |-> typeof, q |-> q]

Plain(n) == Lambda(n, "return", "-", Undefined)
Async(n, typeof) == Lambda(n, "thenable", typeof, Undefined)
Thrower(q) == Lambda("thrower", "throw", "-", q)
Rejecter(typeof, q) == Lambda("rejecter", "reject", typeof, q)
Demo(n) == Lambda(n, "demo", "-", Undefined)
DemoIO(n, q) == Lambda(n, "demo", "-", q)

TestErrorBla == Fault("TestError", NoCode)
tooYoungError == Fault("USER_TOO_YOUNG", NoCode)
noEmailError == Fault("NO_USER_EMAIL", NoCode)
FooErrorBls == Fault("FooError", NoCode)
BarErrorNew == Fault("BarError", NoCode)
EnoentFault == Fault("Error", "ENOENT")

validateUserName(user) ==
    IF (user.t = "user" /\ user.name # "") \/ user.t = "fault"
    THEN Ret(Success(user), <<>>)
    ELSE Ret(Failure(TestErrorBla), <<>>)

validateUserAge(user) ==
    IF user.t \in {"undefined", "null"} THEN Throw(TypeError, <<>>)
    ELSE IF user.t = "user" /\ user.age >= 18 THEN Ret(Success(user), <<>>)
    ELSE Ret(Failure(tooYoungError), <<>>)

validateUserEmail(user) ==
    IF user.t # "user" THEN Throw(TypeError, <<>>)
    ELSE IF user.email # "" THEN Ret(Success(user), <<>>)
    ELSE Ret(Failure(noEmailError), <<>>)

\* realpath('') settles as io says: undefined (it resolved) or the fault it
\* rejected with.
throwableOperation(user, io) ==
    IF user.t # "user" THEN Ret(Promise("reject", TypeError), <<>>)
    ELSE IF user.email # ""
    THEN IF io = Undefined THEN Ret(Promise("resolve", Success(user)), <<>>)
         ELSE Ret(Promise("reject", io), <<>>)
    ELSE Ret(Promise("resolve", Failure(FooErrorBls)), <<>>)

ToUpperCase(s) == IF s = "john" THEN "JOHN" ELSE s

\* { ...user, name: user.name.toUpperCase() }
capitalizeName(user) ==
    CASE user.t = "user" ->
            Ret([user EXCEPT !.name = ToUpperCase(user.name)], <<>>)
      [] user.t = "fault" -> Ret(App("capitalizeName", user), <<>>)
      [] OTHER -> Throw(TypeError, <<>>)

\* The body of a user function fn applied to v.
CallUser(fn, v) ==
    CASE fn.mode = "return" -> Ret(App(fn.n, v), <<>>)
      [] fn.mode = "thenable" ->
            Ret(Thenable(fn.typeof, "resolve", App(fn.n, v)), <<>>)
      [] fn.mode = "throw" -> Throw(fn.q, <<>>)
      [] fn.mode = "reject" -> Ret(Thenable(fn.typeof, "reject", fn.q), <<>>)
      [] fn.n = "validateUserName" -> validateUserName(v)
      [] fn.n = "validateUserAge" -> validateUserAge(v)
      [] fn.n = "validateUserEmail" -> validateUserEmail(v)
      [] fn.n = "capitalizeName" -> capitalizeName(v)
      [] fn.n = "throwableOperation" -> throwableOperation(v, fn.q)
      [] fn.n = "identity" -> Ret(v, <<>>)
      [] OTHER -> Ret(Undefined, <<>>)       \* (a) => console.log(a)

----------------------------------------------------------------------------
(* The adapters.  A function value is a user function, or an adapter applied *)
(* to one:  [k |-> "flatMap" | "bind" | "tap", f |-> fn],                    *)
(*          [k |-> "guard", f |-> fn, errors |-> an ErrorMap or Undefined],  *)
(*          [k |-> "successOf", f |-> fn]  for  (value) => Success(fn(value)) *)

flatMap(nextFunction) == [k |-> "flatMap", f |-> nextFunction]
bind(singleFunction) == [k |-> "bind", f |-> singleFunction]
tap(deadEndFunction) == [k |-> "tap", f |-> deadEndFunction]
guard(switchFunction, errors) == [k |-> "guard", f |-> switchFunction, errors |-> errors]
SuccessOf(singleFunction) == [k |-> "successOf", f |-> singleFunction]

\* The first generation of the algebra: { tag: 'error' | 'value', value }
TaggedFailure(error) == [t |-> "tagged", tag |-> "error", value |-> error]
TaggedSuccess(value) == [t |-> "tagged", tag |-> "value", value |-> value]

\* input => match(input, error, value), over the first generation's match
MatchWith(error, value) == [k |-> "matchWith", error |-> error, value |-> value]

\* x => next(first(x)), an arrow function given as a stage or as a callback
ArrowThen(first, next) == [k |-> "arrow", f |-> first, g |-> next]

\* What `await v` yields once v has settled: the value it continues with, or
\* the value it throws.  Any thenable (object or function) is awaited.
AwaitOutcome(v) ==
    IF HasThen(v) /\ TypeOf(v) \in {"object", "function"}
    THEN [k |-> IF v.settle = "resolve" THEN "ret" ELSE "throw", v |-> v.v]
    ELSE [k |-> "ret", v |-> v]

\* guard's catch block:  return Failure(errors?.[e.code] || e)
GuardCatch(e, errors) ==
    IF errors = Undefined THEN [k |-> "ret", v |-> Failure(e)]
    ELSE IF e.t \in {"undefined", "null"} THEN [k |-> "throw", v |-> TypeError]
    ELSE LET mapped == GetProp(errors, CodeKey(e))
         IN  [k |-> "ret", v |-> Failure(IF Truthy(mapped) THEN mapped ELSE e)]

\* The promise an async function returns, given how its body ended.
AsyncReturn(o) == Promise(IF o.k = "ret" THEN "resolve" ELSE "reject", o.v)

\* guard's body, given the outcome `out` of calling switchFunction:
\*   try { return await switchFunction(previousValue) } catch (e) { ... }
GuardBody(out, errors) ==
    LET awaited == IF out.k = "ret" THEN AwaitOutcome(out.v)
                   ELSE [k |-> "throw", v |-> out.v]
    IN  IF awaited.k = "ret" THEN AsyncReturn(awaited)
        ELSE AsyncReturn(GuardCatch(awaited.v, errors))

\* input._tag
TagOf(input) == IF input.t = "result" THEN input.tag ELSE "undefined"

RECURSIVE Invoke(_, _, _)

\* input.tag (first generation)
TagFieldOf(input) == IF input.t = "tagged" THEN input.tag ELSE "undefined"

\* the first generation's match with the two callbacks exchanged
\* (a variant of matchTagged)
matchTagged_SwapsCallbacks(input, error, value, d) ==
    IF input.t \in {"undefined", "null"} THEN Throw(TypeError, <<>>)
    ELSE CASE TagFieldOf(input) = "error" -> Invoke(value, input.value, d)
           [] TagFieldOf(input) = "value" -> Invoke(error, input.value, d)
           [] OTHER -> Ret(input, <<>>)

\* match(input, error, value) of the first generation, called at depth d
matchTagged(input, error, value, d) ==
    IF input.t \in {"undefined", "null"} THEN Throw(TypeError, <<>>)
    ELSE CASE TagFieldOf(input) = "error" -> Invoke(error, input.value, d)
           [] TagFieldOf(input) = "value" -> Invoke(value, input.value, d)
           [] OTHER -> Ret(input, <<>>)

\* match with the 'error' case falling through to the call (a variant of match)
match_NoShortCircuit(nextFunction, input, d) ==
    IF input.t \in {"undefined", "null"} THEN Throw(TypeError, <<>>)
    ELSE CASE TagOf(input) = "error" -> Invoke(nextFunction, input.error, d)
           [] TagOf(input) = "value" -> Invoke(nextFunction, input.value, d)
           [] OTHER -> Ret(input, <<>>)

\* match with the 'error' case wrapping its input again (a variant of match)
match_RewrapsError(nextFunction, input, d) ==
    IF input.t \in {"undefined", "null"} THEN Throw(TypeError, <<>>)
    ELSE CASE TagOf(input) = "error" -> Ret(Failure(input), <<>>)
           [] TagOf(input) = "value" -> Invoke(nextFunction, input.value, d)
           [] OTHER -> Ret(input, <<>>)

\* match(nextFunction, input), called at nesting depth d
match(nextFunction, input, d) ==
    IF input.t \in {"undefined", "null"} THEN Throw(TypeError, <<>>)
    ELSE CASE TagOf(input) = "error" -> Ret(input, <<>>)
           [] TagOf(input) = "value" -> Invoke(nextFunction, input.value, d)
           [] OTHER -> Ret(input, <<>>)

\* dual(2, body): a call with fewer than `arity` arguments is data-last and
\* yields (self) => body(self, ...args); flatMap's body is match(nextFunction, input).
flatMapBody(input, nextFunction, d) == match(nextFunction, input, d)

\* (value) => singleFunction(value): the result not wrapped (a variant of successOf)
successOf_NoRewrap(singleFunction, value, d) == Invoke(singleFunction, value, d)

\* (value) => Success(singleFunction(value))
successOf(singleFunction, value, d) ==
    LET o == Invoke(singleFunction, value, d)
    IN  IF o.k = "ret" THEN Ret(Success(o.v), o.calls) ELSE o

\* bind(singleFunction)(previousValue)
bindBody(singleFunction, previousValue, d) ==
    match(SuccessOf(singleFunction), previousValue, d)

\* return deadEndFunction(previousValue) (a variant of tapBody)
tapBody_ReturnsCallbackResult(deadEndFunction, previousValue, d) ==
    Invoke(deadEndFunction, previousValue, d)

\* tap(deadEndFunction)(previousValue)
tapBody(deadEndFunction, previousValue, d) ==
    LET o == Invoke(deadEndFunction, previousValue, d)
    IN  IF o.k = "ret" THEN Ret(previousValue, o.calls) ELSE o

\* guard as a plain function: try { return switchFunction(previousValue) }
\* catch (e) { return Failure(errors?.[e.code] || e) } (a variant of guardCall)
guardCall_NotAsync(switchFunction, errors, previousValue, d) ==
    LET o == Invoke(switchFunction, previousValue, d)
        caught == GuardCatch(o.v, errors)
    IN  IF o.k = "ret" THEN o
        ELSE IF caught.k = "ret" THEN Ret(caught.v, o.calls)
        ELSE Throw(caught.v, o.calls)

\* guard(switchFunction, errors)(previousValue): an async function, so every
\* call returns a promise
guardCall(switchFunction, errors, previousValue, d) ==
    LET o == Invoke(switchFunction, previousValue, d)
    IN  Ret(GuardBody(o, errors), o.calls)

\* (x => next(first(x)))(x)
arrowBody(first, next, x, d) ==
    LET o == Invoke(first, x, d)
    IN  IF o.k = "throw" THEN o
        ELSE LET p == Invoke(next, o.v, d)
             IN  [p EXCEPT !.calls = o.calls \o p.calls]

\* fn(v): the outcome, with every function called on the way (fn itself at depth d).
Invoke(fn, v, d) ==
    LET With(o) == [o EXCEPT !.calls = <<CallEntry(d, fn, v, o)>> \o o.calls]
    IN  CASE fn.k = "user" -> With(CallUser(fn, v))
          [] fn.k = "flatMap" -> With(flatMapBody(v, fn.f, d + 1))
          [] fn.k = "bind" -> With(bindBody(fn.f, v, d + 1))
          [] fn.k = "successOf" -> successOf(fn.f, v, d)
          [] fn.k = "tap" -> With(tapBody(fn.f, v, d + 1))
          [] fn.k = "guard" -> With(guardCall(fn.f, fn.errors, v, d + 1))
          [] fn.k = "arrow" -> With(arrowBody(fn.f, fn.g, v, d + 1))
          [] fn.k = "matchWith" -> With(matchTagged(v, fn.error, fn.value, d + 1))

----------------------------------------------------------------------------
(* The composition engine *)

\* isPromise without the test of value.then (a variant of isPromise)
isPromise_NoThenCheck(value) ==
    /\ TypeOf(value) = "object"
    /\ value # Null

isPromise(value) ==
    /\ TypeOf(value) = "object"
    /\ value # Null
    /\ HasThen(value)

\* The calls made by step number i of the chain.
AtStep(i, calls) == [j \in 1..Len(calls) |-> [idx |-> i] @@ calls[j]]

\* What the synchronous part of a composed call ends with: the value it
\* returns, the value it throws, or the thenable it hands to resolveAsync
\* together with funs.slice(i + 1).
Returned(v, calls) == [k |-> "value", v |-> v, rest |-> <<>>, calls |-> calls]
Thrown(e, calls) == [k |-> "thrown", v |-> e, rest |-> <<>>, calls |-> calls]
Handed(v, fs, calls) == [k |-> "async", v |-> v, rest |-> fs, calls |-> calls]

\* pipe with nextArgs never updated: every step gets the caller's argument
\* (a variant of pipe)
RECURSIVE pipe_StaleArgs(_, _, _, _)
pipe_StaleArgs(fs, i, nextArg, calls) ==
    IF i > Len(fs) THEN Returned(nextArg, calls)
    ELSE LET o == Invoke(fs[i], nextArg, 0)
             made == calls \o AtStep(i, o.calls)
         IN  IF o.k = "throw" THEN Thrown(o.v, made)
             ELSE IF isPromise(o.v)
                  THEN Handed(o.v, SubSeq(fs, i + 1, Len(fs)), made)
                  ELSE pipe_StaleArgs(fs, i + 1, nextArg, made)

\* pipe passing over a step when the value in hand is tagged 'error'
\* (a variant of pipe)
RECURSIVE pipe_SkipsDerailed(_, _, _, _)
pipe_SkipsDerailed(fs, i, nextArg, calls) ==
    IF i > Len(fs) THEN Returned(nextArg, calls)
    ELSE IF i > 1 /\ TagOf(nextArg) = "error"
    THEN pipe_SkipsDerailed(fs, i + 1, nextArg, calls)
    ELSE LET o == Invoke(fs[i], nextArg, 0)
             made == calls \o AtStep(i, o.calls)
         IN  IF o.k = "throw" THEN Thrown(o.v, made)
             ELSE IF isPromise(o.v)
                  THEN Handed(o.v, SubSeq(fs, i + 1, Len(fs)), made)
                  ELSE pipe_SkipsDerailed(fs, i + 1, o.v, made)

RECURSIVE pipe(_, _, _, _)

\* pipe(...fs)(x): the loop from index i on, with nextArgs = [nextArg]
pipe(fs, i, nextArg, calls) ==
    IF i > Len(fs) THEN Returned(nextArg, calls)
    ELSE LET o == Invoke(fs[i], nextArg, 0)
             made == calls \o AtStep(i, o.calls)
         IN  IF o.k = "throw" THEN Thrown(o.v, made)
             ELSE IF isPromise(o.v)
                  THEN Handed(o.v, SubSeq(fs, i + 1, Len(fs)), made)
                  ELSE pipe(fs, i + 1, o.v, made)

\* mapFn(next): the wrapper applied to a step
ApplyMapFn(wrapper, next) == [k |-> wrapper, f |-> next]

RECURSIVE mappedPipe(_, _, _, _, _)

\* mappedPipe(wrapper)(...fs)(x): the loop from index i on
mappedPipe(wrapper, fs, i, nextArg, calls) ==
    IF i > Len(fs) THEN Returned(nextArg, calls)
    ELSE LET fn == IF i > 1 THEN ApplyMapFn(wrapper, fs[i]) ELSE fs[i]
             o == Invoke(fn, nextArg, 0)
             made == calls \o AtStep(i, o.calls)
         IN  IF o.k = "throw" THEN Thrown(o.v, made)
             ELSE IF isPromise(o.v)
                  THEN Handed(o.v, SubSeq(fs, i + 1, Len(fs)), made)
                  ELSE mappedPipe(wrapper, fs, i + 1, o.v, made)

\* What the caller holds after the call.
NoReturn == [k |-> "none", state |-> "-", v |-> Undefined]
Immediate(v) == [k |-> "value", state |-> "-", v |-> v]
Abrupt(e) == [k |-> "thrown", state |-> "-", v |-> e]
Pending == [k |-> "promise", state |-> "pending", v |-> Undefined]
Fulfilled(v) == [k |-> "promise", state |-> "fulfilled", v |-> v]
Rejected(e) == [k |-> "promise", state |-> "rejected", v |-> e]

Invocations == DOMAIN pc

\* The caller invokes the composed function: the synchronous loop runs to its
\* end, to a throw, or to the first result isPromise recognises, which starts
\* resolveAsync (it runs to its first await).
Call(c) ==
    /\ pc[c] = "ready"
    /\ LET r == IF engine[c] = "pipe"
                THEN pipe(funs[c], 1, args[c], <<>>)
                ELSE mappedPipe(mapFn[c], funs[c], 1, args[c], <<>>)
       IN  /\ log' = [log EXCEPT ![c] = r.calls]
           /\ result' = [result EXCEPT ![c] = r.v]
           /\ rest' = [rest EXCEPT ![c] = r.rest]
           /\ pc' = [pc EXCEPT ![c] = IF r.k = "async" THEN "await" ELSE "done"]
           /\ ret' = [ret EXCEPT ![c] =
                        CASE r.k = "value" -> Immediate(r.v)
                          [] r.k = "thrown" -> Abrupt(r.v)
                          [] OTHER -> Pending]
    /\ UNCHANGED <<engine, mapFn, funs, args, settled>>

\* The thenable resolveAsync is waiting for settles.
Settle(c) ==
    /\ pc[c] = "await"
    /\ HasThen(result[c])
    /\ ~settled[c]
    /\ settled' = [settled EXCEPT ![c] = TRUE]
    /\ UNCHANGED <<engine, mapFn, funs, args, pc, result, rest, ret, log>>

\* resolveAsync keeping the awaited result in one slot shared by all
\* invocations (a variant of resolveAsync)
resolveAsync_SharedResult(c) ==
    LET a == AwaitOutcome(result[1])
        i == Len(funs[c]) - Len(rest[c]) + 1
    IN  IF a.k = "throw"
        THEN /\ ret' = [ret EXCEPT ![c] = Rejected(a.v)]
             /\ pc' = [pc EXCEPT ![c] = "done"]
             /\ UNCHANGED <<result, rest, log>>
        ELSE IF rest[c] = <<>>
        THEN /\ ret' = [ret EXCEPT ![c] = Fulfilled(a.v)]
             /\ pc' = [pc EXCEPT ![c] = "done"]
             /\ UNCHANGED <<result, rest, log>>
        ELSE LET o == Invoke(Head(rest[c]), a.v, 0)
             IN  /\ log' = [log EXCEPT ![c] = @ \o AtStep(i, o.calls)]
                 /\ IF o.k = "throw"
                    THEN /\ ret' = [ret EXCEPT ![c] = Rejected(o.v)]
                         /\ pc' = [pc EXCEPT ![c] = "done"]
                         /\ UNCHANGED <<result, rest>>
                    ELSE /\ result' = [result EXCEPT ![c] = o.v]
                         /\ rest' = [rest EXCEPT ![c] = Tail(@)]
                         /\ UNCHANGED <<ret, pc>>

\* resolveAsync continues after an await:
\*   for (const fun of funs) result = fun(await result);  return await result
resolveAsync(c) ==
    LET a == AwaitOutcome(result[c])
        i == Len(funs[c]) - Len(rest[c]) + 1
    IN  IF a.k = "throw"
        THEN /\ ret' = [ret EXCEPT ![c] = Rejected(a.v)]
             /\ pc' = [pc EXCEPT ![c] = "done"]
             /\ UNCHANGED <<result, rest, log>>
        ELSE IF rest[c] = <<>>
        THEN /\ ret' = [ret EXCEPT ![c] = Fulfilled(a.v)]
             /\ pc' = [pc EXCEPT ![c] = "done"]
             /\ UNCHANGED <<result, rest, log>>
        ELSE LET o == Invoke(Head(rest[c]), a.v, 0)
             IN  /\ log' = [log EXCEPT ![c] = @ \o AtStep(i, o.calls)]
                 /\ IF o.k = "throw"
                    THEN /\ ret' = [ret EXCEPT ![c] = Rejected(o.v)]
                         /\ pc' = [pc EXCEPT ![c] = "done"]
                         /\ UNCHANGED <<result, rest>>
                    ELSE /\ result' = [result EXCEPT ![c] = o.v]
                         /\ rest' = [rest EXCEPT ![c] = Tail(@)]
                         /\ UNCHANGED <<ret, pc>>

Resume(c) ==
    /\ pc[c] = "await"
    /\ HasThen(result[c]) => settled[c]
    /\ resolveAsync(c)
    /\ settled' = [settled EXCEPT ![c] = FALSE]
    /\ UNCHANGED <<engine, mapFn, funs, args>>

\* Some composed function is invoked by its caller.
Calls == \E c \in Invocations : Call(c)

\* Some awaited thenable settles.
Settles == \E c \in Invocations : Settle(c)

\* The job queue runs the continuation of some resolveAsync.
Resumes == \E c \in Invocations : Resume(c)

Next == Calls \/ Settles \/ Resumes

\* The state after construction of the composed functions in `calls`, a
\* sequence of [engine, mapFn, funs, args], none of them invoked yet.
Constructed(calls) ==
    /\ engine = [c \in DOMAIN calls |-> calls[c].engine]
    /\ mapFn = [c \in DOMAIN calls |-> calls[c].mapFn]
    /\ funs = [c \in DOMAIN calls |-> calls[c].funs]
    /\ args = [c \in DOMAIN calls |-> calls[c].args]
    /\ pc = [c \in DOMAIN calls |-> "ready"]
    /\ result = [c \in DOMAIN calls |-> Undefined]
    /\ rest = [c \in DOMAIN calls |-> <<>>]
    /\ settled = [c \in DOMAIN calls |-> FALSE]
    /\ ret = [c \in DOMAIN calls |-> NoReturn]
    /\ log = [c \in DOMAIN calls |-> <<>>]

PipeOf(fs, x) == [engine |-> "pipe", mapFn |-> "none", funs |-> fs, args |-> x]
MappedPipeOf(w, fs, x) == [engine |-> "mappedPipe", mapFn |-> w, funs |-> fs, args |-> x]

\* All sequences over S of length lo..hi
SeqsOf(S, lo, hi) == UNION {[1..n -> S] : n \in lo..hi}

----------------------------------------------------------------------------
(* Spec: pipe over chains of raw step functions *)

StepNames == {"f", "g"}

RawSteps ==
    {Plain(n) : n \in StepNames}
    \cup {Async(n, ty) : n \in StepNames, ty \in {"object", "function"}}
    \cup {Thrower(TestErrorBla), Rejecter("object", EnoentFault)}

RawInputs == {john, Failure(TestErrorBla)}

Init ==
    \E fs \in SeqsOf(RawSteps, 1, MaxChain), x \in RawInputs :
        Constructed(<<PipeOf(fs, x)>>)

Spec == Init /\ [][Next]_vars

----------------------------------------------------------------------------
(* SpecRail: pipe over chains of adapter-wrapped stages *)

kid == User("john", "john@doe.com", 10)
anon == User("", "john@doe.com", 18)

SwitchFunctions ==
    {Demo("validateUserName"), Demo("validateUserAge"),
     DemoIO("throwableOperation", Undefined)}

SingleTrackFunctions == {Demo("capitalizeName"), Plain("f")}

DeadEndFunctions == {Demo("log"), Plain("g"), Async("g", "object")}

EnoentMap == ErrorMap([c \in {"ENOENT"} |-> BarErrorNew])

RailStages ==
    {flatMap(f) : f \in SwitchFunctions}
    \cup {flatMap(guard(DemoIO("throwableOperation", EnoentFault), EnoentMap))}
    \cup {bind(f) : f \in SingleTrackFunctions}
    \cup {tap(g) : g \in DeadEndFunctions}

RailInputs == {Success(john), Success(kid), Success(anon), Failure(noEmailError), john}

InitRail ==
    \E fs \in SeqsOf(RailStages, 1, MaxRail), x \in RailInputs :
        Constructed(<<PipeOf(fs, x)>>)

SpecRail == InitRail /\ [][Next]_vars

----------------------------------------------------------------------------
(* SpecGuard: pipe over chains around one guard stage *)

\* What a guarded function may throw or reject with.
ThrownValues ==
    {EnoentFault,                      \* a code the map has an entry for
     Fault("Error", "EACCES"),         \* a code the map has no entry for
     Fault("Error", "constructor"),    \* a code naming an inherited property
     Fault("Error", NoCode),           \* new Error('test'): no code
     Null, Undefined}

GuardedFunctions ==
    {Thrower(q) : q \in ThrownValues}
    \cup {Rejecter("object", q) : q \in {EnoentFault, Null}}
    \cup {DemoIO("throwableOperation", io) : io \in {Undefined, EnoentFault}}
    \cup {Demo("validateUserName")}

ErrorMaps == {Undefined, EnoentMap}

GuardStages == {guard(f, m) : f \in GuardedFunctions, m \in ErrorMaps}

GuardPrefixStages == {flatMap(Demo("validateUserName")), flatMap(Demo("validateUserAge"))}
GuardSuffixStages == {bind(Demo("capitalizeName"))}

\* guard(f, m) applied to a user directly, or flatMap(guard(f, m)) behind
\* flatMap stages and applied to a Result; single-track stages may follow.
GuardCalls ==
    {PipeOf(<<g>> \o post, x) :
        g \in GuardStages,
        post \in SeqsOf(GuardSuffixStages, 0, MaxGuardSuffix),
        x \in {john, kid}}
    \cup
    {PipeOf(pre \o <<flatMap(g)>> \o post, x) :
        pre \in SeqsOf(GuardPrefixStages, 0, MaxGuardPrefix),
        g \in GuardStages,
        post \in SeqsOf(GuardSuffixStages, 0, MaxGuardSuffix),
        x \in {Success(john), Success(kid), Failure(noEmailError)}}

InitGuard == \E call \in GuardCalls : Constructed(<<call>>)

SpecGuard == InitGuard /\ [][Next]_vars

----------------------------------------------------------------------------
(* SpecMapped: mappedPipe(wrapper)(f1, ..., fn) beside                      *)
(* pipe(f1, wrapper(f2), ..., wrapper(fn)), both given the same input       *)

Wrappers == {"flatMap", "bind", "tap"}

MappedSteps ==
    {Demo("validateUserName"), Demo("validateUserAge"),
     DemoIO("throwableOperation", Undefined), Demo("capitalizeName")}

MappedInputs == {john, kid}

\* f1, wrapper(f2), ..., wrapper(fn)
WrapAfterFirst(w, fs) ==
    [i \in DOMAIN fs |-> IF i > 1 THEN ApplyMapFn(w, fs[i]) ELSE fs[i]]

InitMapped ==
    \E w \in Wrappers, fs \in SeqsOf(MappedSteps, 1, MaxMapped), x \in MappedInputs :
        Constructed(<<MappedPipeOf(w, fs, x), PipeOf(WrapAfterFirst(w, fs), x)>>)

SpecMapped == InitMapped /\ [][Next]_vars

----------------------------------------------------------------------------
(* What the claims speak of *)

\* fn(...f2(f1(x))): plain nested application, nothing awaited
RECURSIVE Compose(_, _)
Compose(fs, x) ==
    IF fs = <<>> THEN x ELSE Compose(Tail(fs), Invoke(Head(fs), x, 0).v)

\* The value a settled thenable resolved to (any other value is itself).
Resolved(v) == IF HasThen(v) THEN v.v ELSE v

\* fn(...f2(f1(x))) with every suspended result replaced by what it resolves to
RECURSIVE ComposeResolved(_, _)
ComposeResolved(fs, x) ==
    IF fs = <<>> THEN x
    ELSE ComposeResolved(Tail(fs), Resolved(Invoke(Head(fs), x, 0).v))

\* Steps that return their result at once / return a suspended value that resolves
IsPlainStep(fn) == fn.k = "user" /\ fn.mode = "return"
IsSuspendingStep(fn) == fn.k = "user" /\ fn.mode = "thenable"

\* The calls of the chain's own steps (not of what an adapter wraps).
StageCalls(c) == SelectSeq(log[c], LAMBDA e : e.depth = 0)

\* C1: a chain in which no step returns a suspended value returns
\* fn(...f2(f1(x))) to its caller as an immediate value, by the end of the call.
C1_SynchronousChain ==
    \A c \in Invocations :
        ( /\ engine[c] = "pipe"
          /\ pc[c] # "ready"
          /\ Len(funs[c]) >= 1
          /\ \A i \in DOMAIN funs[c] : IsPlainStep(funs[c][i]) )
        => /\ pc[c] = "done"
           /\ ret[c] = Immediate(Compose(funs[c], args[c]))

C1_Witness ==
    \E c \in Invocations :
        /\ pc[c] = "done"
        /\ Len(funs[c]) = 3
        /\ \A i \in DOMAIN funs[c] : IsPlainStep(funs[c][i])
        /\ funs[c][1] # funs[c][2]
        /\ ret[c] = Immediate(App(funs[c][3].n, App(funs[c][2].n, App(funs[c][1].n, args[c]))))

\* A chain of three steps of which exactly one returns a suspended value that
\* resolves, the other two being plain.
OneSuspends(fs) ==
    /\ Len(fs) = 3
    /\ \E s \in 1..3 :
          /\ IsSuspendingStep(fs[s])
          /\ \A i \in 1..3 \ {s} : IsPlainStep(fs[i])

\* The caller holds a suspended value: resolveAsync's promise, or a thenable
\* the chain returned as it is.
CallerSuspended(r) == r.k = "promise" \/ (r.k = "value" /\ HasThen(r.v))

\* The suspended value the caller holds settles to w.
SettlesTo(r, w) ==
    \/ r = Fulfilled(w)
    \/ r.k = "value" /\ HasThen(r.v) /\ r.v.settle = "resolve" /\ r.v.v = w

\* C2: with one suspending step among three, at any position, the caller gets
\* a suspended value, and once the chain has run it settles to the chain's
\* result over the resolved value.
C2_SuspensionTransparency ==
    \A c \in Invocations :
        (engine[c] = "pipe" /\ pc[c] # "ready" /\ OneSuspends(funs[c]))
        => /\ CallerSuspended(ret[c])
           /\ pc[c] = "done" =>
                 SettlesTo(ret[c], ComposeResolved(funs[c], args[c]))

\* C3: when no step throws or rejects, the steps are invoked once each, in
\* index order, and none is invoked with a suspended value that has not settled:
\* each receives what the step before it returned or resolved to.
C3_StrictOrder ==
    \A c \in Invocations :
        ( /\ engine[c] = "pipe"
          /\ \A i \in DOMAIN funs[c] :
                IsPlainStep(funs[c][i]) \/ IsSuspendingStep(funs[c][i]) )
        => LET calls == StageCalls(c)
           IN  /\ Len(calls) <= Len(funs[c])
               /\ pc[c] = "done" => Len(calls) = Len(funs[c])
               /\ \A j \in DOMAIN calls :
                     /\ calls[j].idx = j
                     /\ calls[j].fn = funs[c][j]
                     /\ ~HasThen(calls[j].arg)
                     /\ calls[j].arg =
                            ComposeResolved(SubSeq(funs[c], 1, j - 1), args[c])

\* The calls made, directly or not, by call number j of invocation c.
InvokedWithin(c, j) ==
    {m \in (j + 1)..Len(log[c]) :
        /\ log[c][m].idx = log[c][j].idx
        /\ \A n \in (j + 1)..m : log[c][n].depth > log[c][j].depth}

IsFailure(v) == v.t = "result" /\ v.tag = "error"
IsSuccess(v) == v.t = "result" /\ v.tag = "value"

\* C4: flatMap(f) applied to Failure(e) returns that Failure(e) and makes no
\* call of f (nor of anything else).
C4_FlatMapShortCircuit ==
    \A c \in Invocations : \A j \in DOMAIN log[c] :
        (log[c][j].fn.k = "flatMap" /\ IsFailure(log[c][j].arg))
        => /\ log[c][j].out = [k |-> "ret", v |-> log[c][j].arg]
           /\ InvokedWithin(c, j) = {}

C4_Witness ==
    \E c \in Invocations : \E j \in DOMAIN log[c] :
        /\ log[c][j].fn = flatMap(Demo("validateUserName"))
        /\ log[c][j].arg = Failure(noEmailError)
        /\ log[c][j].out.v = Failure(noEmailError)

IsRailStage(fn) == fn.k \in {"flatMap", "bind"}

\* The value the caller finally holds (once the chain has run).
FinalValue(r) == IF r.k = "value" THEN Resolved(r.v) ELSE r.v

\* C5: in a pipe chain of flatMap / bind stages, once a stage has put out
\* Failure(e) (at once, or as what its suspended output resolved to), every
\* later stage puts out that same Failure(e) without calling what it wraps,
\* and the chain's final result is that Failure(e).
C5_DerailedAbsorbing ==
    \A c \in Invocations :
        (engine[c] = "pipe" /\ \A i \in DOMAIN funs[c] : IsRailStage(funs[c][i]))
        => \A j \in DOMAIN log[c] :
              (log[c][j].depth = 0 /\ log[c][j].out.k = "ret"
                 /\ IsFailure(Resolved(log[c][j].out.v)))
              => /\ \A m \in (j + 1)..Len(log[c]) :
                       log[c][m].idx > log[c][j].idx
                       => /\ log[c][m].depth = 0
                          /\ log[c][m].out =
                                [k |-> "ret", v |-> Resolved(log[c][j].out.v)]
                 /\ pc[c] = "done" =>
                       /\ ret[c].k \in {"value", "promise"}
                       /\ ret[c].state # "rejected"
                       /\ FinalValue(ret[c]) = Resolved(log[c][j].out.v)
                       /\ Len(StageCalls(c)) = Len(funs[c])

C5_Witness ==
    \E c \in Invocations :
        /\ pc[c] = "done"
        /\ args[c] = Success(kid)
        /\ funs[c] = <<flatMap(Demo("validateUserName")),
                       flatMap(Demo("validateUserAge")),
                       bind(Demo("capitalizeName"))>>
        /\ ret[c] = Immediate(Failure(tooYoungError))
        /\ \A j \in DOMAIN log[c] : log[c][j].fn # Demo("capitalizeName")

C10_TapEchoes ==
    \A c \in Invocations : \A j \in DOMAIN log[c] :
        log[c][j].fn.k = "tap"
        => LET e == log[c][j]
           IN  /\ Cardinality(InvokedWithin(c, j)) = 1
               /\ log[c][j + 1].fn = e.fn.f
               /\ log[c][j + 1].arg = e.arg
               /\ log[c][j + 1].out.k = "ret" =>
                     e.out = [k |-> "ret", v |-> e.arg]
               /\ \A m \in DOMAIN log[c] :
                     (log[c][m].depth = 0 /\ log[c][m].idx = e.idx + 1
                        /\ e.depth = 0)
                     => log[c][m].arg = e.arg

C10_Witness ==
    \E c \in Invocations : \E j, m \in DOMAIN log[c] :
        /\ pc[c] = "done"
        /\ log[c][j].fn = tap(Async("g", "object"))
        /\ log[c][j].arg = Success(john)
        /\ log[c][j].depth = 0 /\ log[c][j].idx = 1
        /\ log[c][j + 1].out.v = Promise("resolve", App("g", Success(john)))
        /\ log[c][m].depth = 0 /\ log[c][m].idx = 2
        /\ log[c][m].arg = Success(john)
        /\ ret[c].k = "value"

\* The value a guarded function threw or rejected with, if it did.
Escaped(o) ==
    IF o.k = "throw" THEN o
    ELSE IF HasThen(o.v) /\ o.v.settle = "reject" THEN [k |-> "throw", v |-> o.v.v]
    ELSE [k |-> "ret", v |-> o.v]

WellFormedResult(v) == IsSuccess(v) \/ IsFailure(v)

\* C6: a call of guard(f, faultMap) never throws and its promise never
\* rejects: it resolves to a Result, whatever f threw or rejected with; and a
\* chain whose throwing steps are all guarded ends with a Result.
C6_GuardNeverEscapes ==
    \A c \in Invocations :
        /\ \A j \in DOMAIN log[c] :
              log[c][j].fn.k = "guard"
              => /\ log[c][j].out.k = "ret"
                 /\ HasThen(log[c][j].out.v)
                 /\ log[c][j].out.v.settle = "resolve"
                 /\ WellFormedResult(log[c][j].out.v.v)
        /\ pc[c] = "done" =>
              /\ ret[c].k \in {"value", "promise"}
              /\ ret[c].state # "rejected"
              /\ WellFormedResult(FinalValue(ret[c]))

\* C7: when the guarded function throws or rejects with a fault whose code is
\* c, guard resolves to Failure(faultMap[c]) if faultMap has an entry for c,
\* and to Failure of the raw fault if faultMap is absent or has no entry for c.
C7_FaultMapLookup ==
    \A c \in Invocations : \A j \in DOMAIN log[c] :
        (log[c][j].fn.k = "guard" /\ Len(log[c]) > j)
        => LET e == log[c][j]
               thrown == Escaped(log[c][j + 1].out)
               m == e.fn.errors
           IN  (thrown.k = "throw" /\ thrown.v.t = "fault" /\ thrown.v.code # NoCode)
               => IF m # Undefined /\ thrown.v.code \in DOMAIN m.own
                  THEN e.out.v = Promise("resolve", Failure(m.own[thrown.v.code]))
                  ELSE e.out.v = Promise("resolve", Failure(thrown.v))

\* C8: mappedPipe(wrapper)(f1, ..., fn) applies wrapper(fi) at every step
\* after the first, also after a suspension, and ends as
\* pipe(f1, wrapper(f2), ..., wrapper(fn)) does on the same input.
C8_MappedPipeEquivalence ==
    \A c \in Invocations :
        engine[c] = "mappedPipe"
        => /\ \A j \in DOMAIN log[c] :
                 (log[c][j].depth = 0 /\ log[c][j].idx > 1)
                 => log[c][j].fn = ApplyMapFn(mapFn[c], funs[c][log[c][j].idx])
           /\ \A p \in Invocations :
                 ( /\ engine[p] = "pipe"
                   /\ funs[p] = WrapAfterFirst(mapFn[c], funs[c])
                   /\ args[p] = args[c]
                   /\ pc[p] = "done" /\ pc[c] = "done" )
                 => ret[p] = ret[c]

\* An unguarded call failed: it threw, or returned a thenable that rejects.
CallFailed(e) == e.out.k = "throw" \/ (HasThen(e.out.v) /\ e.out.v.settle = "reject")

\* C11: when a step of a pipe chain throws, or returns a suspended value that
\* rejects, no later step is invoked and the composed call fails with that fault:
\* thrown to the caller if no earlier step suspended, as a rejected suspended
\* result otherwise.
C11_FaultPropagates ==
    \A c \in Invocations :
        engine[c] = "pipe"
        => LET calls == StageCalls(c)
           IN  \A j \in DOMAIN calls :
                 CallFailed(calls[j])
                 => /\ Len(calls) = j
                    /\ pc[c] = "done" =>
                          ret[c] =
                            IF calls[j].out.k = "throw"
                               /\ \A i \in 1..(j - 1) : ~HasThen(calls[i].out.v)
                            THEN Abrupt(calls[j].out.v)
                            ELSE Rejected(IF calls[j].out.k = "throw"
                                          THEN calls[j].out.v
                                          ELSE calls[j].out.v.v)

----------------------------------------------------------------------------
(* SpecAny: pipe(...funs) and mappedPipe(mapFn)(...funs) over every function *)
(* list the rest parameter accepts at run time, the empty one included      *)

MaxAny == 2

AnySteps == {Plain("f"), Async("g", "object")}

AnyChains == SeqsOf(AnySteps, 0, MaxAny)

InitAny ==
    \E fs \in AnyChains, x \in RawInputs :
        \/ Constructed(<<PipeOf(fs, x)>>)
        \/ \E w \in Wrappers : Constructed(<<MappedPipeOf(w, fs, x)>>)

SpecAny == InitAny /\ [][Next]_vars

\* C12: a chain built from an empty function list is a constructor error: no
\* composed function over zero functions ever takes an input and yields a value.
C12_EmptyChainRejected ==
    \A c \in Invocations :
        funs[c] = <<>> => ret[c].k \in {"none", "thrown"}

----------------------------------------------------------------------------
(* SpecBlind: pipe over chains that mix raw steps (switch functions used    *)
(* unwrapped, x => x, plain and suspending steps) with a flatMap stage      *)

MaxBlind == 3

BlindSteps ==
    {Demo("validateUserName"), Demo("validateUserAge"), Demo("identity"),
     Plain("f"), Async("g", "object"), flatMap(Demo("validateUserEmail"))}

BlindInputs == {john, kid, Success(john)}

InitBlind ==
    \E fs \in SeqsOf(BlindSteps, 1, MaxBlind), x \in BlindInputs :
        Constructed(<<PipeOf(fs, x)>>)

SpecBlind == InitBlind /\ [][Next]_vars

\* C13: the engine does not look at Result tags: every step of a chain is
\* invoked, in order, with what the step before it returned or resolved to,
\* a Failure included; unless a step throws or rejects, all steps are invoked.
C13_EngineBlindToTags ==
    \A c \in Invocations :
        engine[c] = "pipe"
        => LET calls == StageCalls(c)
           IN  /\ \A j \in DOMAIN calls :
                     /\ calls[j].idx = j
                     /\ calls[j].fn = funs[c][j]
                     /\ calls[j].arg = IF j = 1 THEN args[c]
                                       ELSE Resolved(calls[j - 1].out.v)
               /\ (pc[c] = "done" /\ \A j \in DOMAIN calls : ~CallFailed(calls[j]))
                     => Len(calls) = Len(funs[c])

\* validateUserAge, unwrapped, derails the chain and the raw step f after it is
\* still invoked, with the Failure.
C13_Witness ==
    \E c \in Invocations :
        LET calls == StageCalls(c)
        IN  /\ pc[c] = "done"
            /\ Len(calls) >= 2
            /\ calls[1].fn = Demo("validateUserAge")
            /\ calls[1].out.v = Failure(tooYoungError)
            /\ calls[2].fn = Plain("f")
            /\ calls[2].arg = Failure(tooYoungError)
            /\ calls[2].out.v = App("f", Failure(tooYoungError))

\* The chain with every step replaced by the plain step of the same name.
PlainVariant(fs) == [i \in DOMAIN fs |-> Plain(fs[i].n)]

\* C14: replacing any subset of the steps by variants that return a suspended
\* value resolving to the plain result changes neither the value the composed
\* call finally settles to nor the order in which the steps are invoked.
C14_SyncAsyncEquivalence ==
    \A c \in Invocations :
        ( /\ engine[c] = "pipe"
          /\ pc[c] = "done"
          /\ \A i \in DOMAIN funs[c] :
                IsPlainStep(funs[c][i]) \/ IsSuspendingStep(funs[c][i]) )
        => LET calls == StageCalls(c)
           IN  /\ FinalValue(ret[c]) = Compose(PlainVariant(funs[c]), args[c])
               /\ [j \in DOMAIN calls |-> calls[j].fn.n]
                     = [i \in DOMAIN funs[c] |-> funs[c][i].n]

----------------------------------------------------------------------------
(* SpecAssoc: x => flatMap(g)(flatMap(f)(x)) beside                         *)
(* flatMap(x => flatMap(g)(f(x))), both given the same Result               *)

\* f returns Success or Failure at once; g may also be the suspending
\* throwableOperation
FirstSwitches ==
    {Demo("validateUserName"), Demo("validateUserAge"), Demo("validateUserEmail")}

SecondSwitches == FirstSwitches \cup {DemoIO("throwableOperation", Undefined)}

noEmail == User("john", "", 18)

AssocInputs ==
    {Success(john), Success(kid), Success(anon), Success(noEmail),
     Failure(noEmailError), Failure(TestErrorBla)}

Nested(f, g) == ArrowThen(flatMap(f), flatMap(g))
Regrouped(f, g) == flatMap(ArrowThen(f, flatMap(g)))

InitAssoc ==
    \E f \in FirstSwitches, g \in SecondSwitches, r \in AssocInputs :
        Constructed(<<PipeOf(<<Nested(f, g)>>, r), PipeOf(<<Regrouped(f, g)>>, r)>>)

SpecAssoc == InitAssoc /\ [][Next]_vars

\* The calls of user functions an invocation has made: function and argument.
UserCalls(c) ==
    LET made == SelectSeq(log[c], LAMBDA e : e.fn.k = "user")
    IN  [j \in DOMAIN made |-> <<made[j].fn, made[j].arg>>]

\* C15: flatMap is associative: flatMap(g)(flatMap(f)(r)) and
\* flatMap(x => flatMap(g)(f(x)))(r) yield the same result (and call f and g
\* on the same arguments), for every Result r.
C15_FlatMapAssociative ==
    (pc[1] = "done" /\ pc[2] = "done")
    => /\ ret[1] = ret[2]
       /\ UserCalls(1) = UserCalls(2)

\* f lets the user pass and g derails: both groupings yield g's Failure.
C15_Witness ==
    /\ pc[1] = "done" /\ pc[2] = "done"
    /\ funs[1] = <<Nested(Demo("validateUserName"), Demo("validateUserAge"))>>
    /\ funs[2] = <<Regrouped(Demo("validateUserName"), Demo("validateUserAge"))>>
    /\ args[1] = Success(kid)
    /\ UserCalls(2) = << <<Demo("validateUserName"), kid>>, <<Demo("validateUserAge"), kid>> >>
    /\ ret[1] = Immediate(Failure(tooYoungError))
    /\ ret[2] = Immediate(Failure(tooYoungError))

----------------------------------------------------------------------------
(* SpecMatch: one call of match, of either generation, as the only stage    *)
(* of a chain: input => match(input, error, value) on a first-generation    *)
(* Result, and flatMap(nextFunction) = match(nextFunction, input) on a      *)
(* later-generation one                                                     *)

Callbacks ==
    {Plain("f"), Plain("g"), Async("g", "object"), Thrower(TestErrorBla)}

Payloads == {john, TestErrorBla}

MatchCalls ==
    {PipeOf(<<MatchWith(onFailure, onSuccess)>>, r) :
        onFailure \in Callbacks, onSuccess \in Callbacks,
        r \in {TaggedFailure(p) : p \in Payloads}
               \cup {TaggedSuccess(p) : p \in Payloads}}
    \cup {PipeOf(<<flatMap(onSuccess)>>, r) :
        onSuccess \in Callbacks,
        r \in {Failure(p) : p \in Payloads} \cup {Success(p) : p \in Payloads}}

InitMatch == \E call \in MatchCalls : Constructed(<<call>>)

SpecMatch == InitMatch /\ [][Next]_vars

\* Call number j of invocation c made exactly one call, of fn on v, and ended
\* as that call ended.
OnlyCalled(c, j, fn, v) ==
    /\ InvokedWithin(c, j) = {j + 1}
    /\ log[c][j + 1].fn = fn
    /\ log[c][j + 1].arg = v
    /\ log[c][j].out = log[c][j + 1].out

----------------------------------------------------------------------------
(* SpecPair: one composed chain invoked twice, on x and on y, the two       *)
(* invocations in flight together                                           *)

MaxPair == 3

PairSteps ==
    {Plain(n) : n \in StepNames} \cup {Async(n, "object") : n \in StepNames}

InitPair ==
    \E fs \in SeqsOf(PairSteps, 1, MaxPair) :
        Constructed(<<PipeOf(fs, john), PipeOf(fs, kid)>>)

SpecPair == InitPair /\ [][Next]_vars

\* C17: two invocations of one chain, their continuations interleaved in any
\* order, are isolated: every step of an invocation receives the value computed
\* from that invocation's own input by the steps before it (a value names the
\* input it was computed from), and each invocation settles to the value it
\* yields when run alone.
C17_Isolation ==
    \A c \in Invocations :
        LET calls == StageCalls(c)
        IN  /\ \A j \in DOMAIN calls :
                  /\ calls[j].fn = funs[c][j]
                  /\ calls[j].arg =
                         ComposeResolved(SubSeq(funs[c], 1, j - 1), args[c])
            /\ pc[c] = "done" =>
                  FinalValue(ret[c]) = ComposeResolved(funs[c], args[c])

\* The second invocation has run all three suspending steps and settled to
\* its own result while the first, called before it, still waits at its first
\* suspension.
C17_Witness ==
    /\ Len(funs[1]) = 3
    /\ \A i \in 1..3 : IsSuspendingStep(funs[1][i])
    /\ pc[1] = "await" /\ Len(log[1]) = 1
    /\ pc[2] = "done" /\ Len(log[2]) = 3
    /\ ret[2] = Fulfilled(App(funs[2][3].n, App(funs[2][2].n, App(funs[2][1].n, kid))))

\* C18: no step after the first is invoked with a suspended value: whatever
\* the positions at which steps return a thenable, object or callable, every
\* following step receives the value it resolved to.
C18_NoSuspendedArgument ==
    \A c \in Invocations :
        engine[c] = "pipe"
        => LET calls == StageCalls(c)
           IN  \A j \in DOMAIN calls :
                 j > 1 => /\ ~HasThen(calls[j].arg)
                          /\ calls[j].arg = Resolved(calls[j - 1].out.v)

\* The calls of guard-wrapped functions an invocation has made.
GuardEntries(c) == {m \in DOMAIN log[c] : log[c][m].fn.k = "guard"}

\* C19: every call of guard(f, faultMap) returns a promise, also when f
\* returns at once.  So, once called, a chain with a flatMap(guard(f)) stage
\* behind synchronous stages has handed its caller a suspended result exactly
\* when that stage was given a Success; given a Failure, the stage does not
\* call the guard and the caller holds that Failure at once.
C19_GuardAlwaysSuspends ==
    \A c \in Invocations :
        /\ \A m \in GuardEntries(c) :
              /\ log[c][m].out.k = "ret"
              /\ isPromise(log[c][m].out.v)
        /\ pc[c] # "ready" =>
              \A j \in DOMAIN log[c] :
                 (log[c][j].depth = 0 /\ log[c][j].fn.k = "flatMap"
                                     /\ log[c][j].fn.f.k = "guard")
                 => IF IsSuccess(log[c][j].arg)
                    THEN /\ InvokedWithin(c, j) \cap GuardEntries(c) # {}
                         /\ ret[c].k = "promise"
                    ELSE /\ IsFailure(log[c][j].arg)
                         /\ GuardEntries(c) = {}
                         /\ pc[c] = "done"
                         /\ ret[c] = Immediate(log[c][j].arg)

\* validateUserName, guarded, returns at once and completes normally; the
\* guard's result is a promise all the same and the caller's result settles
\* later.
C19_Witness ==
    \E c \in Invocations :
        /\ funs[c] = <<flatMap(Demo("validateUserName")),
                       flatMap(guard(Demo("validateUserName"), Undefined))>>
        /\ args[c] = Success(john)
        /\ pc[c] = "done"
        /\ \E m \in GuardEntries(c) :
              log[c][m].out.v = Promise("resolve", Success(john))
        /\ ret[c] = Fulfilled(Success(john))
====
